---- MODULE Spec2Model ----
(***************************************************************************)
(* Model of the playback synchronisation, loop scheduling, loop region and *)
(* pitch-contour segmentation of PitchAccentApp                            *)
(* (src/pitch_accent_qt_matplotlib.py).                                    *)
(*                                                                         *)
(* Times and positions are integers in milliseconds (the source keeps      *)
(* float seconds and converts with int(x * 1000) at the engine boundary).  *)
(* The media engine (VLC) is an external collaborator: set_time is carried *)
(* out by the engine asynchronously, so get_time keeps reporting the       *)
(* pre-seek position until the engine has performed the seek.              *)
(***************************************************************************)
EXTENDS Integers, Sequences, FiniteSets, TLC

----------------------------------------------------------------------------
(* Program constants (milliseconds).                                       *)

PollInterval == 50
DebounceMs == 200
SeekWait == 150
FirstFrameDelay == 50
Margin == 300
EndBuffer == 50
SnapStart == 100
AheadThreshold == 100
NudgeMs == 10
SilenceThreshold == 10
FullScale == 100000
Int16Max == 32767
MaxLoopDelay == 800
NoLoopEnd == -99999

(* Bounds of the model.                                                    *)

MaxUserActions == 4
MaxLen == 5
RecFrames == 3
MaxThreads == 2
MaxText == 3

(* Clip durations (pitch_times[-1]) the scheduler model loads: one shorter *)
(* than Margin + EndBuffer, one longer.                                    *)
ClipDurations == {300, 600}

(* Raw span-selector coordinates offered to on_select in the scheduler.    *)
RawSelections == {0, 100, 200}

(* Contents of the loop-delay text field: a parsed integer, or text that   *)
(* int() rejects.                                                          *)
DelayTexts ==
    { [num |-> FALSE, val |-> 0],
      [num |-> TRUE, val |-> 0],
      [num |-> TRUE, val |-> 500],
      [num |-> TRUE, val |-> 900] }

(* Sample values a capture can hold, in units of 1e-5 of full scale: loud  *)
(* and negative, near-silent (exactly at the 1e-4 threshold), loud.        *)
SampleValues == {-20, 10, 20}

(* Inputs of the loop-region model: the 5.0 s clip of the end-to-end       *)
(* example, a short clip and a clip shorter than the margin.               *)
RegionClips == {200, 1000, 5000}
RegionRaw == {-50, 0, 50, 99, 100, 150, 600, 650, 700, 1000, 4000, 4650, 4700, 4800, 5000}

----------------------------------------------------------------------------
VARIABLES
    \* loop region (LoopRegion)
    clip_duration, loop_start, loop_end, zoom_enabled, zoomed,
    \* scheduler
    is_looping, delay_text, play_pause_debounce, debounce_timer,
    poll_timer, loop_delay_timer, end_timers, settle_timers, end_pending,
    first_frame_timer, stop_btn_enabled,
    \* estimator
    expecting_seek, last_playback_pos, since_poll, indicator_timer_active,
    \* media engine
    vlc_state, vlc_time, vlc_seek,
    \* pitch contour scan (redraw_waveform)
    voiced, scan_i, scan_start, segments, scan_done,
    \* observation of the last handler (history, not program state)
    handler, cmds, obs, budget, cross_seeks, toggle_cmds, loop_wait,
    \* TRUE from stop_native until the next toggle_play_pause or load_file
    after_stop,
    \* user recording and user playback (background threads, sounddevice)
    recording, rec_pc, rec_elapsed, rec_failed, user_file,
    user_playing, threads, sd_active,
    \* an earlier recording thread that is still running
    rec_old,
    \* user_playback_timer, user_playback_overlay and its x position
    user_timer, overlay_x, overlay_lost

regionVars == <<clip_duration, loop_start, loop_end, zoom_enabled, zoomed>>
schedVars == <<is_looping, delay_text, play_pause_debounce, debounce_timer,
               poll_timer, loop_delay_timer, end_timers, settle_timers,
               end_pending, first_frame_timer, stop_btn_enabled>>
estVars == <<expecting_seek, last_playback_pos, since_poll,
             indicator_timer_active>>
vlcVars == <<vlc_state, vlc_time, vlc_seek>>
scanVars == <<voiced, scan_i, scan_start, segments, scan_done>>
histVars == <<handler, cmds, obs, budget>>
ghostVars == <<cross_seeks, toggle_cmds, loop_wait, after_stop>>
userVars == <<recording, rec_pc, rec_elapsed, rec_failed, user_file,
              user_playing, threads, sd_active, rec_old, user_timer, overlay_x,
              overlay_lost>>
vars == <<regionVars, schedVars, estVars, vlcVars, scanVars, histVars, ghostVars,
          userVars>>

----------------------------------------------------------------------------
(* Helpers.                                                                *)

Min(a, b) == IF a < b THEN a ELSE b
Max(a, b) == IF a > b THEN a ELSE b

(* max_end = clip_duration - margin - 0.05                                 *)
MaxEnd(clip) == clip - Margin - EndBuffer

(* max(0.0, min(t, max_end))                                               *)
ClampPos(t, clip) == Max(0, Min(t, MaxEnd(clip)))

----------------------------------------------------------------------------
(* Loop region: on_select, process_audio, clear_selection, toggle_zoom.    *)

(* Plausible slip: the snap tolerance is subtracted instead of snapping.   *)
SnapMin_shift(xmin) == IF xmin < SnapStart THEN 0 ELSE xmin - SnapStart

(* Plausible slip: the snap test uses the 10 ms nudge instead of 100 ms.   *)
SnapMin_narrow(xmin) == IF xmin < NudgeMs THEN 0 ELSE xmin

(* if xmin < 0.1: xmin = 0.0                                               *)
SnapMin(xmin) == IF xmin < SnapStart THEN 0 ELSE xmin

(* if xmax > max_end: xmax = max_end                                       *)
ClipMax(xmax, clip) == IF xmax > MaxEnd(clip) THEN MaxEnd(clip) ELSE xmax

(* self._loop_start = max(0.0, xmin)                                       *)
SelectStart(xmin) == Max(0, SnapMin(xmin))

(* self._loop_end = min(max_end, xmax)                                     *)
SelectEnd(xmax, clip) == Min(MaxEnd(clip), ClipMax(xmax, clip))

(* if self._loop_start > 0.0 or self._loop_end < max_end                   *)
IsSubRange(s, e, clip) == s > 0 \/ e < MaxEnd(clip)

(* Plausible slip: the 50 ms end buffer is forgotten on clear.             *)
DefaultEnd_nobuffer(clip) == clip - Margin

(* max_end as process_audio and clear_selection compute it                 *)
DefaultEnd(clip) == MaxEnd(clip)

on_select_region(xmin, xmax) ==
    /\ loop_start' = SelectStart(xmin)
    /\ loop_end' = SelectEnd(xmax, clip_duration)
    /\ zoom_enabled' = IsSubRange(SelectStart(xmin), SelectEnd(xmax, clip_duration),
                                  clip_duration)
    /\ zoomed' = IF IsSubRange(SelectStart(xmin), SelectEnd(xmax, clip_duration),
                               clip_duration)
                 THEN zoomed ELSE FALSE
    /\ UNCHANGED clip_duration

process_audio_region(clip) ==
    /\ clip_duration' = clip
    /\ loop_start' = 0
    /\ loop_end' = DefaultEnd(clip)
    /\ UNCHANGED <<zoom_enabled, zoomed>>

clear_selection_region ==
    /\ loop_start' = 0
    /\ loop_end' = DefaultEnd(clip_duration)
    /\ zoom_enabled' = FALSE
    /\ zoomed' = FALSE
    /\ UNCHANGED clip_duration

toggle_zoom_region(checked) ==
    /\ zoom_enabled
    /\ zoomed' = checked
    /\ UNCHANGED <<clip_duration, loop_start, loop_end, zoom_enabled>>

(* What a region handler leaves for the properties to read.                *)
RegionObs(xmin, xmax) ==
    [xmin |-> xmin, xmax |-> xmax, prev_start |-> loop_start,
     prev_end |-> loop_end, prev_handler |-> handler]

NoObs == [none |-> TRUE]

----------------------------------------------------------------------------
(* Media engine, behind play / pause / set_time / get_time / get_state.    *)

NoTimer == 0 - 1
NoSeek == 0 - 1

MaxClip == CHOOSE c \in ClipDurations : \A d \in ClipDurations : c >= d

(* now - self._last_playback_time, kept only up to the point from which    *)
(* the clamp in the estimator returns max_end whatever the baseline is.    *)
DtCap == Max(0, MaxEnd(MaxClip))

VlcPlaying(st) == st = "Playing"

VlcAfterPause(st) == IF st = "Playing" THEN "Paused" ELSE st

Cmd(op, arg) == <<op, arg>>

SeekCmd(to) == Cmd("seek", to)
PauseCmd == Cmd("pause", 0)
PlayCmd == Cmd("play", 0)

(* Plausible slip: an out-of-range value is clamped into the range.        *)
DelayVal_clamp(txt) ==
    IF ~txt.num THEN 0 ELSE Max(0, Min(txt.val, MaxLoopDelay))

(* int(self.loop_delay_input.text()), out of range or unparsable -> 0      *)
DelayVal(txt) ==
    IF ~txt.num THEN 0
    ELSE IF txt.val < 0 \/ txt.val > MaxLoopDelay THEN 0
    ELSE txt.val

Loaded == loop_end # NoLoopEnd

(* The engine carries out the pending seek.                                *)
VlcApplySeek ==
    /\ vlc_seek # NoSeek
    /\ vlc_time' = Min(vlc_seek, clip_duration)
    /\ vlc_seek' = NoSeek
    /\ handler' = "vlc_seek"
    /\ cmds' = <<>>
    /\ obs' = NoObs
    /\ UNCHANGED <<regionVars, schedVars, estVars, vlc_state, scanVars, userVars, budget,
                   toggle_cmds, loop_wait, after_stop>>
    /\ cross_seeks' = 0

----------------------------------------------------------------------------
(* History of a delayed loop restart opened by the poll tick: time since   *)
(* the pause, the delay read at the pause, and the seek and play commands  *)
(* that timer callbacks have issued since.                                 *)

NoWait == [on |-> FALSE, age |-> 0, d |-> 0, seeks |-> 0, plays |-> 0]

CountOp(seq, op) == Cardinality({i \in DOMAIN seq : seq[i][1] = op})

WaitAfter(w, seq) ==
    IF w.on
    THEN [w EXCEPT !.seeks = Min(2, @ + CountOp(seq, "seek")),
                   !.plays = Min(2, @ + CountOp(seq, "play"))]
    ELSE w

WaitAged(w, dt) ==
    IF w.on THEN [w EXCEPT !.age = Min(w.d + SeekWait + PollInterval, @ + dt)]
    ELSE w

----------------------------------------------------------------------------
(* toggle_play_pause                                                       *)

(* Plausible slip: the debounce test is missing.                           *)
Debounced_off == FALSE

(* if self._play_pause_debounce: return                                    *)
Debounced == play_pause_debounce

(* Plausible slip: a position exactly at loop_end counts as inside.        *)
OutsideLoop_open(t) == t < loop_start \/ t > loop_end

(* current_time < self._loop_start or current_time >= self._loop_end       *)
OutsideLoop(t) == t < loop_start \/ t >= loop_end

(* the position toggle_play_pause seeks to before play                     *)
PlayTarget(t) == IF OutsideLoop(t) THEN loop_start ELSE t + NudgeMs

ToggleGap == IF debounce_timer = NoTimer THEN NoTimer ELSE DebounceMs - debounce_timer

toggle_play_pause ==
    /\ Loaded
    /\ budget > 0
    /\ budget' = budget - 1
    /\ handler' = "toggle"
    /\ after_stop' = FALSE
    /\ loop_delay_timer' = NoTimer
    /\ loop_wait' = NoWait
    /\ cross_seeks' = 0
    /\ IF Debounced
       THEN /\ cmds' = <<>>
            /\ obs' = [skipped |-> TRUE, gap |-> ToggleGap, first |-> toggle_cmds,
                       flagged |-> expecting_seek,
                       delay_timer |-> loop_delay_timer]
            /\ UNCHANGED <<play_pause_debounce, debounce_timer, poll_timer,
                           stop_btn_enabled, expecting_seek, vlcVars, toggle_cmds>>
       ELSE /\ play_pause_debounce' = TRUE
            /\ debounce_timer' = DebounceMs
            /\ obs' = [skipped |-> FALSE, gap |-> ToggleGap, first |-> 0,
                       flagged |-> ~VlcPlaying(vlc_state) \/ expecting_seek,
                       was_playing |-> VlcPlaying(vlc_state), pos |-> vlc_time]
            /\ IF VlcPlaying(vlc_state)
               THEN /\ cmds' = <<PauseCmd>>
                    /\ toggle_cmds' = 1
                    /\ vlc_state' = VlcAfterPause(vlc_state)
                    /\ poll_timer' = NoTimer
                    /\ UNCHANGED <<stop_btn_enabled, expecting_seek, vlc_time, vlc_seek>>
               ELSE /\ expecting_seek' = TRUE
                    /\ vlc_seek' = PlayTarget(vlc_time)
                    /\ vlc_state' = "Playing"
                    /\ cmds' = <<SeekCmd(PlayTarget(vlc_time)), PlayCmd>>
                    /\ toggle_cmds' = 2
                    /\ stop_btn_enabled' = TRUE
                    /\ poll_timer' = PollInterval
                    /\ UNCHANGED vlc_time
    /\ UNCHANGED <<regionVars, is_looping, delay_text, end_timers, settle_timers,
                   end_pending, first_frame_timer, last_playback_pos, since_poll,
                   indicator_timer_active, scanVars, userVars>>

(* _reset_play_pause_debounce, 200 ms after an accepted toggle             *)
reset_play_pause_debounce ==
    /\ debounce_timer = 0
    /\ debounce_timer' = NoTimer
    /\ play_pause_debounce' = FALSE
    /\ toggle_cmds' = 0
    /\ handler' = "debounce_reset"
    /\ UNCHANGED after_stop
    /\ cmds' = <<>>
    /\ obs' = NoObs
    /\ UNCHANGED <<regionVars, is_looping, delay_text, poll_timer, loop_delay_timer,
                   end_timers, settle_timers, end_pending, first_frame_timer,
                   stop_btn_enabled, estVars, vlcVars, scanVars, userVars, budget,
                   cross_seeks, loop_wait>>

----------------------------------------------------------------------------
(* poll_vlc_state_and_overlay (every 50 ms while the poll timer runs)      *)

(* Plausible slip: the pending-seek flag is not consulted.                 *)
ShouldUpdate_noseek(expect, playing, t, interpolated) ==
    \/ ~playing
    \/ t > interpolated + AheadThreshold

(* Plausible slip: a paused engine is not snapped to.                      *)
ShouldUpdate_nopause(expect, playing, t, interpolated) ==
    \/ expect
    \/ t > interpolated + AheadThreshold

(* Plausible slip: the estimate also snaps when the engine is behind.      *)
ShouldUpdate_drift(expect, playing, t, interpolated) ==
    \/ expect
    \/ ~playing
    \/ t > interpolated + AheadThreshold
    \/ t + AheadThreshold < interpolated

(* should_update: expecting a seek, or not playing, or the engine is more  *)
(* than 100 ms ahead of the interpolation                                  *)
ShouldUpdate(expect, playing, t, interpolated) ==
    \/ expect
    \/ ~playing
    \/ t > interpolated + AheadThreshold

(* Plausible slip: the delay is honoured whether or not looping is on.     *)
LoopEndDelayed_anyloop(playing, t, looping, delay_val) ==
    playing /\ t >= loop_end /\ delay_val > 0

(* if self._is_looping and delay_val > 0, under current_time >= loop_end   *)
LoopEndDelayed(playing, t, looping, delay_val) ==
    playing /\ t >= loop_end /\ looping /\ delay_val > 0

(* the else branch: seek to loop start at once                             *)
LoopEndImmediate(playing, t, looping, delay_val) ==
    playing /\ t >= loop_end /\ ~(looping /\ delay_val > 0)

poll_vlc_state_and_overlay ==
    /\ poll_timer = 0
    /\ \E sync \in BOOLEAN :
       LET playing == VlcPlaying(vlc_state)
           delay_val == DelayVal(delay_text)
           delayed == LoopEndDelayed(playing, vlc_time, is_looping, delay_val)
           immediate == LoopEndImmediate(playing, vlc_time, is_looping, delay_val)
           pauses == delayed \/ (immediate /\ ~is_looping)
           ms == IF immediate /\ sync THEN Min(loop_start, clip_duration) ELSE vlc_time
           t == ClampPos(ms, clip_duration)
           interpolated == ClampPos(last_playback_pos + since_poll, clip_duration)
           expect == expecting_seek \/ immediate
           newpos == IF ShouldUpdate(expect, playing, t, interpolated)
                     THEN t ELSE interpolated
           issued == IF delayed THEN <<PauseCmd>>
                     ELSE IF immediate /\ is_looping THEN <<SeekCmd(loop_start)>>
                     ELSE IF immediate THEN <<SeekCmd(loop_start), PauseCmd>>
                     ELSE <<>>
       IN
       /\ immediate \/ ~sync
       /\ cmds' = issued
       /\ vlc_state' = IF pauses THEN VlcAfterPause(vlc_state) ELSE vlc_state
       /\ vlc_time' = ms
       /\ vlc_seek' = IF immediate THEN (IF sync THEN NoSeek ELSE loop_start)
                      ELSE vlc_seek
       /\ poll_timer' = IF pauses THEN NoTimer ELSE PollInterval
       /\ loop_delay_timer' = IF delayed THEN delay_val ELSE loop_delay_timer
       /\ stop_btn_enabled' =
             IF immediate /\ ~is_looping THEN FALSE
             ELSE IF playing THEN TRUE
             ELSE IF vlc_state = "Paused" THEN FALSE
             ELSE stop_btn_enabled
       /\ expecting_seek' = FALSE
       /\ last_playback_pos' = newpos
       /\ since_poll' = 0
       /\ indicator_timer_active' = TRUE
       /\ cross_seeks' = IF immediate /\ is_looping /\ ~sync
                         THEN Min(2, cross_seeks + 1) ELSE 0
       /\ loop_wait' = IF delayed
                       THEN [on |-> TRUE, age |-> 0, d |-> delay_val,
                             seeks |-> 0, plays |-> 0]
                       ELSE NoWait
       /\ obs' = [t |-> ms, expect |-> expect, playing |-> playing,
                  crossing |-> delayed \/ immediate, delayed |-> delayed,
                  looping |-> is_looping, delay |-> delay_val,
                  start |-> loop_start, end |-> loop_end,
                  interp |-> interpolated,
                  seeks |-> IF immediate THEN cross_seeks + 1 ELSE 0,
                  flagged |-> expect]
    /\ handler' = "poll"
    /\ UNCHANGED after_stop
    /\ UNCHANGED <<regionVars, is_looping, delay_text, play_pause_debounce,
                   debounce_timer, end_timers, settle_timers, end_pending,
                   first_frame_timer, scanVars, userVars, budget, toggle_cmds>>

----------------------------------------------------------------------------
(* _update_native_playback_indicator (animation tick, ~60 Hz)              *)

(* Plausible slip: the upper clamp is missing.                             *)
IndicatorPos_noclamp(pos, dt, clip) == Max(0, pos + dt)

(* est_pos = max(0.0, min(last_pos + (now - last_time), max_end))          *)
IndicatorPos(pos, dt, clip) == ClampPos(pos + dt, clip)

(* Plausible slip: the engine state is not consulted.                      *)
IndicatorMoves_always(st) == TRUE

(* if state not in [Playing, Buffering]: return                            *)
IndicatorMoves(st) == VlcPlaying(st)

update_native_playback_indicator ==
    /\ indicator_timer_active
    /\ handler' = "anim"
    /\ cmds' = <<>>
    /\ IF IndicatorMoves(vlc_state)
       THEN obs' = [moved |-> TRUE, raw |-> last_playback_pos + since_poll,
                    est_pos |-> IndicatorPos(last_playback_pos, since_poll,
                                             clip_duration)]
       ELSE obs' = [moved |-> FALSE, raw |-> 0, est_pos |-> 0]
    /\ UNCHANGED <<regionVars, schedVars, expecting_seek, last_playback_pos,
                   since_poll, indicator_timer_active, vlcVars, scanVars, userVars, budget,
                   ghostVars>>

----------------------------------------------------------------------------
(* stop_native (Stop button, enabled only while stop_btn is enabled)       *)

stop_native ==
    /\ Loaded
    /\ stop_btn_enabled
    /\ budget > 0
    /\ budget' = budget - 1
    /\ handler' = "stop"
    /\ after_stop' = TRUE
    /\ loop_delay_timer' = NoTimer
    /\ expecting_seek' = TRUE
    /\ vlc_seek' = loop_start
    /\ vlc_state' = VlcAfterPause(vlc_state)
    /\ cmds' = <<SeekCmd(loop_start), PauseCmd>>
    /\ stop_btn_enabled' = FALSE
    /\ poll_timer' = NoTimer
    /\ indicator_timer_active' = FALSE
    /\ obs' = [flagged |-> expecting_seek']
    /\ cross_seeks' = 0
    /\ loop_wait' = NoWait
    /\ UNCHANGED <<regionVars, is_looping, delay_text, play_pause_debounce,
                   debounce_timer, end_timers, settle_timers, end_pending,
                   first_frame_timer, last_playback_pos, since_poll, vlc_time,
                   scanVars, userVars, toggle_cmds>>

----------------------------------------------------------------------------
(* Loop restart: _restart_loop, _actually_play_after_seek and the timers   *)
(* that call them.                                                         *)

RemoveAt(seq, i) == SubSeq(seq, 1, i - 1) \o SubSeq(seq, i + 1, Len(seq))

(* Plausible slip: the seek is issued but the settle timer is not armed.   *)
restart_loop_nosettle(start_time) ==
    /\ expecting_seek' = TRUE
    /\ vlc_seek' = start_time
    /\ UNCHANGED settle_timers
    /\ cmds' = <<SeekCmd(start_time)>>

(* _restart_loop(start_time): mark the seek, seek, arm the settle timer    *)
restart_loop(start_time) ==
    /\ expecting_seek' = TRUE
    /\ vlc_seek' = start_time
    /\ settle_timers' = Append(settle_timers, SeekWait)
    /\ cmds' = <<SeekCmd(start_time)>>

(* Plausible slip: the callback restarts without looking at the flag.      *)
StillLooping_always == TRUE

(* if self._is_looping, read when the delay timer fires                    *)
StillLooping == is_looping

(* restart_if_still_looping: the timer armed by the poll tick fires        *)
restart_if_still_looping ==
    /\ loop_delay_timer = 0
    /\ loop_delay_timer' = NoTimer
    /\ handler' = "delay_timer"
    /\ UNCHANGED after_stop
    /\ obs' = [looping |-> is_looping, state |-> vlc_state,
               flagged |-> is_looping \/ expecting_seek]
    /\ IF StillLooping
       THEN /\ restart_loop(loop_start)
            /\ loop_wait' = WaitAfter(loop_wait, <<SeekCmd(loop_start)>>)
       ELSE /\ cmds' = <<>>
            /\ loop_wait' = NoWait
            /\ UNCHANGED <<expecting_seek, vlc_seek, settle_timers>>
    /\ cross_seeks' = 0
    /\ UNCHANGED <<regionVars, is_looping, delay_text, play_pause_debounce,
                   debounce_timer, poll_timer, end_timers, end_pending,
                   first_frame_timer, stop_btn_enabled, last_playback_pos,
                   since_poll, indicator_timer_active, vlc_state,
                   vlc_time, scanVars, userVars, budget, toggle_cmds>>

(* the single-shot timer armed by handle_end fires: _restart_loop with the *)
(* start time captured when it was armed                                   *)
end_restart_timer ==
    /\ \E i \in DOMAIN end_timers :
          /\ end_timers[i].rem = 0
          /\ restart_loop(end_timers[i].start)
          /\ loop_wait' = WaitAfter(loop_wait, <<SeekCmd(end_timers[i].start)>>)
          /\ end_timers' = RemoveAt(end_timers, i)
    /\ handler' = "end_timer"
    /\ UNCHANGED after_stop
    /\ obs' = [looping |-> is_looping, flagged |-> expecting_seek']
    /\ cross_seeks' = 0
    /\ UNCHANGED <<regionVars, is_looping, delay_text, play_pause_debounce,
                   debounce_timer, poll_timer, loop_delay_timer, end_pending,
                   first_frame_timer, stop_btn_enabled, last_playback_pos,
                   since_poll, indicator_timer_active, vlc_state,
                   vlc_time, scanVars, userVars, budget, toggle_cmds>>

(* _actually_play_after_seek, 150 ms after _restart_loop                   *)
actually_play_after_seek ==
    /\ settle_timers # <<>>
    /\ Head(settle_timers) = 0
    /\ settle_timers' = Tail(settle_timers)
    /\ vlc_state' = "Playing"
    /\ cmds' = <<PlayCmd>>
    /\ stop_btn_enabled' = TRUE
    /\ poll_timer' = PollInterval
    /\ handler' = "settle"
    /\ UNCHANGED after_stop
    /\ obs' = NoObs
    /\ cross_seeks' = 0
    /\ loop_wait' = WaitAfter(loop_wait, <<PlayCmd>>)
    /\ UNCHANGED <<regionVars, is_looping, delay_text, play_pause_debounce,
                   debounce_timer, loop_delay_timer, end_timers, end_pending,
                   first_frame_timer, estVars, vlc_time, vlc_seek, scanVars, userVars,
                   budget, toggle_cmds>>

----------------------------------------------------------------------------
(* End of media: on_vlc_end_reached queues handle_end on the event loop.   *)

on_vlc_end_reached(pending) == pending + 1

handle_end ==
    /\ end_pending > 0
    /\ end_pending' = end_pending - 1
    /\ handler' = "handle_end"
    /\ UNCHANGED after_stop
    /\ LET delay_val == DelayVal(delay_text)
           start_time == IF loop_end # NoLoopEnd THEN loop_start ELSE 0
       IN
       IF is_looping /\ delay_val > 0
       THEN /\ vlc_state' = VlcAfterPause(vlc_state)
            /\ poll_timer' = NoTimer
            /\ end_timers' = Append(end_timers, [rem |-> delay_val, start |-> start_time])
            /\ cmds' = <<PauseCmd>>
            /\ obs' = [delayed |-> TRUE, looping |-> is_looping, delay |-> delay_val,
                       start |-> start_time, flagged |-> expecting_seek]
            /\ UNCHANGED <<vlc_seek, stop_btn_enabled>>
       ELSE /\ vlc_seek' = start_time
            /\ end_timers' = end_timers
            /\ obs' = [delayed |-> FALSE, looping |-> is_looping, delay |-> delay_val,
                       start |-> start_time, flagged |-> expecting_seek]
            /\ IF is_looping
               THEN /\ vlc_state' = "Playing"
                    /\ cmds' = <<SeekCmd(start_time), PlayCmd>>
                    /\ stop_btn_enabled' = TRUE
                    /\ poll_timer' = PollInterval
               ELSE /\ vlc_state' = VlcAfterPause(vlc_state)
                    /\ cmds' = <<SeekCmd(start_time), PauseCmd>>
                    /\ stop_btn_enabled' = FALSE
                    /\ poll_timer' = poll_timer
    /\ cross_seeks' = 0
    /\ loop_wait' = WaitAfter(loop_wait, cmds')
    /\ UNCHANGED <<regionVars, is_looping, delay_text, play_pause_debounce,
                   debounce_timer, loop_delay_timer, settle_timers,
                   first_frame_timer, expecting_seek, last_playback_pos,
                   since_poll, indicator_timer_active, vlc_time, scanVars, userVars,
                   budget, toggle_cmds>>

----------------------------------------------------------------------------
(* load_file: a new player, process_audio, show_first_frame                *)

load_file ==
    /\ budget > 0
    /\ first_frame_timer = NoTimer
    /\ budget' = budget - 1
    /\ \E clip \in ClipDurations : process_audio_region(clip)
    /\ handler' = "load_file"
    /\ after_stop' = FALSE
    /\ vlc_state' = "Playing"
    /\ vlc_time' = 0
    /\ vlc_seek' = NoSeek
    /\ expecting_seek' = TRUE
    /\ first_frame_timer' = FirstFrameDelay
    /\ stop_btn_enabled' = FALSE
    /\ cmds' = <<PlayCmd>>
    /\ obs' = NoObs
    /\ cross_seeks' = 0
    /\ loop_wait' = NoWait
    /\ UNCHANGED <<is_looping, delay_text, play_pause_debounce, debounce_timer,
                   poll_timer, loop_delay_timer, end_timers, settle_timers,
                   end_pending, last_playback_pos, since_poll,
                   indicator_timer_active, scanVars, userVars, toggle_cmds>>

(* the 50 ms single-shot of show_first_frame: pause, then set_time(0)      *)
first_frame_shown ==
    /\ first_frame_timer = 0
    /\ first_frame_timer' = NoTimer
    /\ vlc_state' = VlcAfterPause(vlc_state)
    /\ vlc_seek' = 0
    /\ cmds' = <<PauseCmd, SeekCmd(0)>>
    /\ handler' = "first_frame"
    /\ UNCHANGED after_stop
    /\ obs' = [expect |-> expecting_seek, flagged |-> expecting_seek]
    /\ cross_seeks' = 0
    /\ UNCHANGED <<regionVars, is_looping, delay_text, play_pause_debounce,
                   debounce_timer, poll_timer, loop_delay_timer, end_timers,
                   settle_timers, end_pending, stop_btn_enabled, estVars,
                   vlc_time, scanVars, userVars, budget, toggle_cmds, loop_wait>>

----------------------------------------------------------------------------
(* User edits of the region, the loop checkbox and the delay field.        *)

on_select ==
    /\ Loaded
    /\ budget > 0
    /\ budget' = budget - 1
    /\ \E xmin \in RawSelections, xmax \in RawSelections :
          /\ xmin <= xmax
          /\ on_select_region(xmin, xmax)
          /\ obs' = RegionObs(xmin, xmax)
    /\ handler' = "on_select"
    /\ UNCHANGED after_stop
    /\ cmds' = <<>>
    /\ cross_seeks' = 0
    /\ UNCHANGED <<schedVars, expecting_seek, last_playback_pos, since_poll,
                   indicator_timer_active, vlcVars, scanVars, userVars, toggle_cmds,
                   loop_wait>>

clear_selection ==
    /\ Loaded
    /\ budget > 0
    /\ budget' = budget - 1
    /\ clear_selection_region
    /\ obs' = RegionObs(0, 0)
    /\ handler' = "clear_selection"
    /\ UNCHANGED after_stop
    /\ cmds' = <<>>
    /\ cross_seeks' = 0
    /\ UNCHANGED <<schedVars, expecting_seek, last_playback_pos, since_poll,
                   indicator_timer_active, vlcVars, scanVars, userVars, toggle_cmds,
                   loop_wait>>

(* on_loop_changed: the Loop checkbox is toggled                           *)
on_loop_changed ==
    /\ Loaded
    /\ budget > 0
    /\ budget' = budget - 1
    /\ is_looping' = ~is_looping
    /\ handler' = "loop_changed"
    /\ UNCHANGED after_stop
    /\ cmds' = <<>>
    /\ obs' = NoObs
    /\ cross_seeks' = 0
    /\ UNCHANGED <<regionVars, delay_text, play_pause_debounce, debounce_timer,
                   poll_timer, loop_delay_timer, end_timers, settle_timers,
                   end_pending, first_frame_timer, stop_btn_enabled, estVars,
                   vlcVars, scanVars, userVars, toggle_cmds, loop_wait>>

(* the user types into loop_delay_input                                    *)
edit_loop_delay ==
    /\ budget > 0
    /\ budget' = budget - 1
    /\ \E txt \in DelayTexts : txt # delay_text /\ delay_text' = txt
    /\ handler' = "edit_delay"
    /\ UNCHANGED after_stop
    /\ cmds' = <<>>
    /\ obs' = NoObs
    /\ cross_seeks' = 0
    /\ UNCHANGED <<regionVars, is_looping, play_pause_debounce, debounce_timer,
                   poll_timer, loop_delay_timer, end_timers, settle_timers,
                   end_pending, first_frame_timer, stop_btn_enabled, estVars,
                   vlcVars, scanVars, userVars, toggle_cmds, loop_wait>>

----------------------------------------------------------------------------
(* Passage of time: one poll interval.  No timer is overdue when time      *)
(* advances; a playing engine advances its position and, at the end of the *)
(* stream, ends and notifies on_vlc_end_reached.                           *)

TimerOk(t) == t = NoTimer \/ t >= PollInterval

TimerDown(t) == IF t = NoTimer THEN NoTimer ELSE t - PollInterval

Tick ==
    /\ TimerOk(poll_timer)
    /\ TimerOk(debounce_timer)
    /\ TimerOk(loop_delay_timer)
    /\ TimerOk(first_frame_timer)
    /\ \A i \in DOMAIN end_timers : end_timers[i].rem >= PollInterval
    /\ \A i \in DOMAIN settle_timers : settle_timers[i] >= PollInterval
    /\ end_pending = 0
    /\ poll_timer' = TimerDown(poll_timer)
    /\ debounce_timer' = TimerDown(debounce_timer)
    /\ loop_delay_timer' = TimerDown(loop_delay_timer)
    /\ first_frame_timer' = TimerDown(first_frame_timer)
    /\ end_timers' = [i \in DOMAIN end_timers |->
                         [end_timers[i] EXCEPT !.rem = @ - PollInterval]]
    /\ settle_timers' = [i \in DOMAIN settle_timers |-> settle_timers[i] - PollInterval]
    /\ since_poll' = Min(DtCap, since_poll + PollInterval)
    /\ IF VlcPlaying(vlc_state)
       THEN /\ vlc_time' = Min(clip_duration, vlc_time + PollInterval)
            /\ IF vlc_time + PollInterval >= clip_duration
               THEN /\ vlc_state' = "Ended"
                    /\ end_pending' = on_vlc_end_reached(end_pending)
               ELSE UNCHANGED <<vlc_state, end_pending>>
       ELSE UNCHANGED <<vlc_state, vlc_time, end_pending>>
    /\ loop_wait' = WaitAged(loop_wait, PollInterval)
    /\ handler' = "tick"
    /\ UNCHANGED after_stop
    /\ cmds' = <<>>
    /\ obs' = NoObs
    /\ UNCHANGED <<regionVars, is_looping, delay_text, play_pause_debounce,
                   stop_btn_enabled, expecting_seek, last_playback_pos,
                   indicator_timer_active, vlc_seek, scanVars, userVars, budget,
                   cross_seeks, toggle_cmds>>

----------------------------------------------------------------------------
(* The state after construction: no file loaded, Loop checked, delay "0".  *)

(* recording = False, user_playing = False, no thread, no recording file   *)
UserIdle ==
    /\ recording = FALSE
    /\ rec_pc = "none"
    /\ rec_elapsed = 0
    /\ rec_failed = FALSE
    /\ user_file = [exists |-> FALSE]
    /\ user_playing = FALSE
    /\ threads = [t \in 1..MaxThreads |-> [kind |-> "none", pc |-> "none",
                                            stopped |-> FALSE, failed |-> FALSE]]
    /\ sd_active = FALSE
    /\ rec_old = "none"
    /\ user_timer = "none"
    /\ overlay_x = 0
    /\ overlay_lost = FALSE

ScanIdle ==
    /\ voiced = <<>>
    /\ scan_i = 0
    /\ scan_start = 0
    /\ segments = <<>>
    /\ scan_done = FALSE

Init ==
    /\ clip_duration = 0
    /\ loop_start = 0
    /\ loop_end = NoLoopEnd
    /\ zoom_enabled = FALSE
    /\ zoomed = FALSE
    /\ is_looping = TRUE
    /\ delay_text = [num |-> TRUE, val |-> 0]
    /\ play_pause_debounce = FALSE
    /\ debounce_timer = NoTimer
    /\ poll_timer = NoTimer
    /\ loop_delay_timer = NoTimer
    /\ end_timers = <<>>
    /\ settle_timers = <<>>
    /\ end_pending = 0
    /\ first_frame_timer = NoTimer
    /\ stop_btn_enabled = FALSE
    /\ expecting_seek = FALSE
    /\ last_playback_pos = 0
    /\ since_poll = DtCap
    /\ indicator_timer_active = FALSE
    /\ vlc_state = "Stopped"
    /\ vlc_time = 0
    /\ vlc_seek = NoSeek
    /\ ScanIdle
    /\ UserIdle
    /\ handler = "init"
    /\ cmds = <<>>
    /\ obs = NoObs
    /\ budget = MaxUserActions
    /\ cross_seeks = 0
    /\ toggle_cmds = 0
    /\ loop_wait = NoWait
    /\ after_stop = FALSE

Next ==
    \/ load_file
    \/ toggle_play_pause
    \/ reset_play_pause_debounce
    \/ poll_vlc_state_and_overlay
    \/ update_native_playback_indicator
    \/ stop_native
    \/ restart_if_still_looping
    \/ end_restart_timer
    \/ actually_play_after_seek
    \/ handle_end
    \/ first_frame_shown
    \/ on_select
    \/ clear_selection
    \/ on_loop_changed
    \/ edit_loop_delay
    \/ VlcApplySeek
    \/ Tick

Spec == Init /\ [][Next]_vars

----------------------------------------------------------------------------
(* The loop region on its own: process_audio, on_select, clear_selection   *)
(* and toggle_zoom applied in any order to inputs drawn from RegionClips   *)
(* and RegionRaw (and to the region's own current bounds).                 *)

RegionFrame ==
    /\ cmds' = <<>>
    /\ UNCHANGED <<schedVars, estVars, vlcVars, scanVars, userVars, budget, ghostVars>>

RegionLoad ==
    /\ \E clip \in RegionClips : process_audio_region(clip)
    /\ obs' = RegionObs(0, 0)
    /\ handler' = "process_audio"
    /\ RegionFrame

RegionSelect ==
    /\ Loaded
    /\ \E xmin \in RegionRaw \cup {loop_start}, xmax \in RegionRaw \cup {loop_end} :
          /\ xmin <= xmax \/ (xmin = loop_start /\ xmax = loop_end)
          /\ on_select_region(xmin, xmax)
          /\ obs' = RegionObs(xmin, xmax)
    /\ handler' = "on_select"
    /\ RegionFrame

RegionClear ==
    /\ Loaded
    /\ clear_selection_region
    /\ obs' = RegionObs(0, 0)
    /\ handler' = "clear_selection"
    /\ RegionFrame

RegionZoom ==
    /\ Loaded
    /\ \E checked \in BOOLEAN : toggle_zoom_region(checked)
    /\ obs' = RegionObs(0, 0)
    /\ handler' = "toggle_zoom"
    /\ RegionFrame

NextRegion == RegionLoad \/ RegionSelect \/ RegionClear \/ RegionZoom

SpecRegion == Init /\ [][NextRegion]_vars

----------------------------------------------------------------------------
(* The loop-delay field as text.  int() accepts an optional sign followed  *)
(* by digits and raises ValueError on anything else; the alphabet leaves   *)
(* out white space, "+" and "_", which int() also accepts around digits.   *)

DelayChars == {"0", "8", "9", "-", "x"}

DelayStrings == UNION {[1..k -> DelayChars] : k \in 0..MaxText}

IsDigit(c) == c \in {"0", "8", "9"}

DigitVal(c) == IF c = "8" THEN 8 ELSE IF c = "9" THEN 9 ELSE 0

RECURSIVE DecimalVal(_)
DecimalVal(s) ==
    IF s = <<>> THEN 0
    ELSE 10 * DecimalVal(SubSeq(s, 1, Len(s) - 1)) + DigitVal(s[Len(s)])

(* int(text): num is FALSE where int() raises                              *)
ParseInt(s) ==
    LET neg == s # <<>> /\ s[1] = "-"
        body == IF neg THEN Tail(s) ELSE s
    IN IF body # <<>> /\ \A i \in DOMAIN body : IsDigit(body[i])
       THEN [num |-> TRUE,
             val |-> IF neg THEN 0 - DecimalVal(body) ELSE DecimalVal(body)]
       ELSE [num |-> FALSE, val |-> 0]

DelayFrame ==
    /\ cmds' = <<>>
    /\ UNCHANGED <<regionVars, is_looping, play_pause_debounce, debounce_timer,
                   poll_timer, loop_delay_timer, end_timers, settle_timers,
                   end_pending, first_frame_timer, stop_btn_enabled, estVars,
                   vlcVars, scanVars, userVars, budget, ghostVars>>

(* the field holds some text                                               *)
DelayType ==
    /\ \E txt \in DelayStrings :
          /\ delay_text' = ParseInt(txt)
          /\ obs' = [text |-> txt]
    /\ handler' = "delay_typed"
    /\ DelayFrame

(* try: delay_val = int(text); range test; except: delay_val = 0, as the   *)
(* poll tick and handle_end read it                                        *)
DelayRead ==
    /\ handler = "delay_typed"
    /\ handler' = "delay_read"
    /\ obs' = [text |-> obs.text, delay |-> DelayVal(delay_text)]
    /\ UNCHANGED delay_text
    /\ DelayFrame

NextDelay == DelayType \/ DelayRead

SpecDelay == Init /\ [][NextDelay]_vars

----------------------------------------------------------------------------
(* The segmentation scan of redraw_waveform over the voiced flags, one     *)
(* loop iteration per step.  Indices are 1-based; scan_start = 0 stands    *)
(* for start = None; a segment covers first..last.                         *)

BoolSeqs(n) == UNION {[1..k -> BOOLEAN] : k \in 0..n}

(* end = i if not voiced[i] else i + 1, as the last covered index          *)
SegLast(i) == IF ~voiced[i] THEN i - 1 ELSE i

(* seg_len > 1: only then is the segment plotted                           *)
Plotted(first, last) == last - first + 1 > 1

(* len(seg_x) > 3: resampled at 3 ms, otherwise plotted as it is           *)
Resampled(first, last) == last - first + 1 > 3

ScanStep ==
    /\ ~scan_done
    /\ scan_i <= Len(voiced)
    /\ IF voiced[scan_i] /\ scan_start = 0
       THEN /\ scan_start' = scan_i
            /\ segments' = segments
       ELSE IF (~voiced[scan_i] \/ scan_i = Len(voiced)) /\ scan_start # 0
       THEN /\ scan_start' = 0
            /\ segments' =
                  IF Plotted(scan_start, SegLast(scan_i))
                  THEN Append(segments,
                              [first |-> scan_start, last |-> SegLast(scan_i),
                               dense |-> Resampled(scan_start, SegLast(scan_i))])
                  ELSE segments
       ELSE UNCHANGED <<scan_start, segments>>
    /\ scan_i' = scan_i + 1
    /\ UNCHANGED <<voiced, scan_done>>
    /\ UNCHANGED <<regionVars, schedVars, estVars, vlcVars, histVars, ghostVars, userVars>>

ScanEnd ==
    /\ ~scan_done
    /\ scan_i > Len(voiced)
    /\ scan_done' = TRUE
    /\ UNCHANGED <<voiced, scan_i, scan_start, segments>>
    /\ UNCHANGED <<regionVars, schedVars, estVars, vlcVars, histVars, ghostVars, userVars>>

InitContour ==
    /\ voiced \in BoolSeqs(MaxLen)
    /\ scan_i = 1
    /\ scan_start = 0
    /\ segments = <<>>
    /\ scan_done = FALSE
    /\ clip_duration = 0
    /\ loop_start = 0
    /\ loop_end = NoLoopEnd
    /\ zoom_enabled = FALSE
    /\ zoomed = FALSE
    /\ is_looping = TRUE
    /\ delay_text = [num |-> TRUE, val |-> 0]
    /\ play_pause_debounce = FALSE
    /\ debounce_timer = NoTimer
    /\ poll_timer = NoTimer
    /\ loop_delay_timer = NoTimer
    /\ end_timers = <<>>
    /\ settle_timers = <<>>
    /\ end_pending = 0
    /\ first_frame_timer = NoTimer
    /\ stop_btn_enabled = FALSE
    /\ expecting_seek = FALSE
    /\ last_playback_pos = 0
    /\ since_poll = DtCap
    /\ indicator_timer_active = FALSE
    /\ vlc_state = "Stopped"
    /\ vlc_time = 0
    /\ vlc_seek = NoSeek
    /\ UserIdle
    /\ handler = "init"
    /\ cmds = <<>>
    /\ obs = NoObs
    /\ budget = MaxUserActions
    /\ cross_seeks = 0
    /\ toggle_cmds = 0
    /\ loop_wait = NoWait
    /\ after_stop = FALSE

NextContour == ScanStep \/ ScanEnd

SpecContour == InitContour /\ [][NextContour]_vars

----------------------------------------------------------------------------
(* User recording and user playback.  start_recording, play_user and       *)
(* loop_user each start a background thread; a thread advances one         *)
(* statement group per step, interleaved with the event-loop handlers.     *)
(* obs.touched names what a step reads or writes outside its own locals:   *)
(* "engine" (vlc_player), "plot", "overlay", "buttons", "contour".         *)

Abs(x) == IF x < 0 THEN 0 - x ELSE x

(* Plausible slip: the first sample above the threshold, not the last.     *)
LastAbove_first(buf) ==
    LET above == {i \in DOMAIN buf : Abs(buf[i]) > SilenceThreshold}
    IN IF above = {} THEN 0 ELSE CHOOSE i \in above : \A j \in above : i <= j

(* np.where(abs_rec > 1e-4)[0][-1] + 1, or 0 when no sample is above       *)
LastAbove(buf) ==
    LET above == {i \in DOMAIN buf : Abs(buf[i]) > SilenceThreshold}
    IN IF above = {} THEN 0 ELSE CHOOSE i \in above : \A j \in above : j <= i

(* trimmed = recording[:last] if len(nonzero) > 0 else recording           *)
Trimmed(buf) ==
    IF LastAbove(buf) > 0 THEN SubSeq(buf, 1, LastAbove(buf)) ELSE buf

(* np.int16(np.clip(x, -1, 1) * 32767): clip, scale, truncate towards 0    *)
ToInt16(x) ==
    LET c == Max(0 - FullScale, Min(x, FullScale))
    IN IF c >= 0 THEN (c * Int16Max) \div FullScale
       ELSE 0 - (((0 - c) * Int16Max) \div FullScale)

Int16Seq(buf) == [i \in DOMAIN buf |-> ToInt16(buf[i])]

CaptureBuffers == [1..RecFrames -> SampleValues]

UserFrame ==
    /\ cmds' = <<>>
    /\ UNCHANGED <<regionVars, schedVars, estVars, vlcVars, scanVars, ghostVars>>

playVars == <<user_playing, threads, sd_active>>
recVars == <<recording, rec_pc, rec_elapsed, rec_failed, user_file,
             rec_old>>
overlayVars == <<user_timer, overlay_x, overlay_lost>>

(* _cleanup_playback_lines: user_playback_timer is stopped and dropped,    *)
(* then the overlays are moved to 0; with user_playback_overlay set to     *)
(* None the last line raises AttributeError (hasattr is still true)        *)
CleanupRaises == overlay_lost

(* Plausible slip: the overlays are reset but the timer is left running.   *)
cleanup_playback_lines_nostop ==
    /\ overlay_x' = IF CleanupRaises THEN overlay_x ELSE 0
    /\ UNCHANGED <<user_timer, overlay_lost>>

cleanup_playback_lines ==
    /\ user_timer' = "none"
    /\ overlay_x' = IF CleanupRaises THEN overlay_x ELSE 0
    /\ UNCHANGED overlay_lost

(* where a recording thread stands once a newer one has been started: in   *)
(* its `while self.recording` loop (it has called sd.rec by then), or      *)
(* where it was after the loop                                             *)
OlderThread(pc) == IF pc \in {"begin", "check", "sleep"} THEN "wait" ELSE pc

(* start_recording: returns at once while the flag is set; otherwise sets  *)
(* it and starts a thread, whether or not the previous thread has          *)
(* returned.  The newest thread is followed step by step, one earlier      *)
(* thread from its loop test on.                                           *)
start_recording ==
    /\ budget > 0
    /\ budget' = budget - 1
    /\ recording \/ rec_pc = "none" \/ rec_old = "none"
    /\ handler' = "start_recording"
    /\ obs' = [thread |-> "event_loop", touched |-> {"buttons"},
               busy |-> recording]
    /\ IF recording
       THEN UNCHANGED recVars
       ELSE /\ recording' = TRUE
            /\ rec_old' = IF rec_pc = "none" THEN rec_old ELSE OlderThread(rec_pc)
            /\ rec_pc' = "begin"
            /\ rec_failed' = FALSE
            /\ rec_elapsed' = 0
            /\ UNCHANGED user_file
    /\ UNCHANGED <<playVars, overlayVars>>
    /\ UserFrame

(* stop_recording                                                          *)
stop_recording ==
    /\ budget > 0
    /\ budget' = budget - 1
    /\ recording
    /\ recording' = FALSE
    /\ handler' = "stop_recording"
    /\ obs' = [thread |-> "event_loop", touched |-> {"buttons"}]
    /\ UNCHANGED <<rec_pc, rec_elapsed, rec_failed, user_file, rec_old>>
    /\ UNCHANGED <<playVars, overlayVars>>
    /\ UserFrame

(* _record_thread: device lookup and sd.rec; either may raise.  sd.rec     *)
(* returns the buffer at once and the device fills it while the thread     *)
(* waits; its contents are fixed when the thread stops the capture.        *)
RecBegin ==
    /\ rec_pc = "begin"
    /\ \/ /\ rec_pc' = "check"
          /\ rec_failed' = FALSE
       \/ /\ rec_pc' = "finally"
          /\ rec_failed' = TRUE
    /\ handler' = "rec_begin"
    /\ obs' = [thread |-> "record", touched |-> {}]
    /\ UNCHANGED <<recording, rec_elapsed, user_file, rec_old, budget>>
    /\ UNCHANGED <<playVars, overlayVars>>
    /\ UserFrame

(* while self.recording: the test                                          *)
RecCheck ==
    /\ rec_pc = "check"
    /\ rec_pc' = IF recording THEN "sleep" ELSE "save"
    /\ handler' = "rec_check"
    /\ obs' = [thread |-> "record", touched |-> {}, elapsed |-> rec_elapsed]
    /\ UNCHANGED <<recording, rec_elapsed, rec_failed, user_file, rec_old,
                   budget>>
    /\ UNCHANGED <<playVars, overlayVars>>
    /\ UserFrame

(* time.sleep(0.1): the capture fills one more frame, up to its length     *)
RecSleep ==
    /\ rec_pc = "sleep"
    /\ rec_pc' = "check"
    /\ rec_elapsed' = Min(RecFrames, rec_elapsed + 1)
    /\ handler' = "rec_sleep"
    /\ obs' = [thread |-> "record", touched |-> {}, elapsed |-> rec_elapsed]
    /\ UNCHANGED <<recording, rec_failed, user_file, rec_old, budget>>
    /\ UNCHANGED <<playVars, overlayVars>>
    /\ UserFrame

(* sd.stop, sd.wait, trim, convert, wavfile.write; a failing write is      *)
(* caught and reported, the thread goes on.  obs.written is the sample     *)
(* sequence handed to wavfile.write.                                       *)
RecSave ==
    /\ rec_pc = "save"
    /\ rec_pc' = "process"
    /\ \E ok \in BOOLEAN, buf \in CaptureBuffers :
          /\ user_file' = IF ok THEN [exists |-> TRUE] ELSE user_file
          /\ obs' = [thread |-> "record", touched |-> {}, saved |-> ok,
                     captured |-> buf,
                     written |-> IF ok THEN Int16Seq(Trimmed(buf)) ELSE <<>>]
    /\ sd_active' = FALSE
    /\ handler' = "rec_save"
    /\ UNCHANGED <<recording, rec_elapsed, rec_failed, rec_old, budget>>
    /\ UNCHANGED <<user_playing, threads, overlayVars>>
    /\ UserFrame

(* what process_user_audio touches when called with the file present and   *)
(* the analysis succeeding: redraw_waveform reads vlc_player.get_time()    *)
(* when a native clip is loaded                                            *)
ProcessTouched(analysed) ==
    {"overlay"}
        \cup (IF analysed THEN {"contour", "plot"} ELSE {})
        \cup (IF analysed /\ Loaded THEN {"engine"} ELSE {})

(* self.process_user_audio(); play_user_btn / loop_user_btn.setEnabled.    *)
(* process_user_audio begins with _cleanup_playback_lines; when that       *)
(* raises, the analysis is skipped and the thread goes on to its finally.  *)
(* The timer is stopped from this thread and its only reference dropped:   *)
(* its callback does not run again.                                        *)
RecProcess ==
    /\ rec_pc = "process"
    /\ rec_pc' = "finally"
    /\ cleanup_playback_lines
    /\ \E analysed \in BOOLEAN :
          /\ analysed => (user_file.exists /\ ~CleanupRaises)
          /\ obs' = [thread |-> "record",
                     touched |-> ProcessTouched(analysed) \cup {"buttons"}]
    /\ handler' = "rec_process"
    /\ UNCHANGED <<recording, rec_elapsed, rec_failed, user_file, rec_old, budget>>
    /\ UNCHANGED playVars
    /\ UserFrame

(* Plausible slip: the flag is reset only on the success path.             *)
FlagAfterPath_onsuccess(flag, failed) == IF failed THEN flag ELSE FALSE

(* finally: self.recording = False / self.user_playing = False             *)
FlagAfterPath(flag, failed) == FALSE

(* finally: self.recording = False; record_btn.setText("Record"); the      *)
(* thread ends                                                             *)
RecFinally ==
    /\ rec_pc = "finally"
    /\ rec_pc' = "none"
    /\ recording' = FlagAfterPath(recording, rec_failed)
    /\ handler' = "rec_finally"
    /\ obs' = [thread |-> "record", touched |-> {"buttons"}, failed |-> rec_failed]
    /\ UNCHANGED <<rec_elapsed, rec_failed, user_file, rec_old, budget>>
    /\ UNCHANGED <<playVars, overlayVars>>
    /\ UserFrame

(* the earlier thread at `while self.recording`: it leaves the loop only   *)
(* when it reads the flag as false                                         *)
RecOldCheck ==
    /\ rec_old = "wait"
    /\ rec_old' = IF recording THEN "wait" ELSE "save"
    /\ handler' = "rec_old_check"
    /\ obs' = [thread |-> "record", touched |-> {}, flag |-> recording]
    /\ UNCHANGED <<recording, rec_pc, rec_elapsed, rec_failed, user_file, budget>>
    /\ UNCHANGED <<playVars, overlayVars>>
    /\ UserFrame

(* the earlier thread: sd.stop, sd.wait and the save                       *)
RecOldSave ==
    /\ rec_old = "save"
    /\ rec_old' = "process"
    /\ sd_active' = FALSE
    /\ \E ok \in BOOLEAN :
          /\ user_file' = IF ok THEN [exists |-> TRUE] ELSE user_file
          /\ obs' = [thread |-> "record", touched |-> {}, saved |-> ok]
    /\ handler' = "rec_old_save"
    /\ UNCHANGED <<recording, rec_pc, rec_elapsed, rec_failed, budget>>
    /\ UNCHANGED <<user_playing, threads, overlayVars>>
    /\ UserFrame

(* the earlier thread: process_user_audio and the two buttons              *)
RecOldProcess ==
    /\ rec_old = "process"
    /\ rec_old' = "finally"
    /\ cleanup_playback_lines
    /\ \E analysed \in BOOLEAN :
          /\ analysed => (user_file.exists /\ ~CleanupRaises)
          /\ obs' = [thread |-> "record",
                     touched |-> ProcessTouched(analysed) \cup {"buttons"}]
    /\ handler' = "rec_old_process"
    /\ UNCHANGED <<recording, rec_pc, rec_elapsed, rec_failed, user_file, budget>>
    /\ UNCHANGED playVars
    /\ UserFrame

(* the earlier thread's finally: self.recording = False, whichever thread  *)
(* the flag now belongs to                                                 *)
RecOldFinally ==
    /\ rec_old = "finally"
    /\ rec_old' = "none"
    /\ recording' = FlagAfterPath(recording, FALSE)
    /\ handler' = "rec_old_finally"
    /\ obs' = [thread |-> "record", touched |-> {"buttons"},
               newer |-> rec_pc # "none", flag |-> recording]
    /\ UNCHANGED <<rec_pc, rec_elapsed, rec_failed, user_file, budget>>
    /\ UNCHANGED <<playVars, overlayVars>>
    /\ UserFrame

RecThread ==
    \/ RecBegin \/ RecCheck \/ RecSleep \/ RecSave \/ RecProcess \/ RecFinally
    \/ RecOldCheck \/ RecOldSave \/ RecOldProcess \/ RecOldFinally

(* Playback threads.  sd.play starts the (single, global) output stream,   *)
(* sd.wait returns once the stream has played out or has been stopped.     *)

NoThread == [kind |-> "none", pc |-> "none", stopped |-> FALSE, failed |-> FALSE]

FreeSlots == {t \in 1..MaxThreads : threads[t].kind = "none"}

Spawn(kind) ==
    \E t \in FreeSlots :
        /\ \A u \in FreeSlots : t <= u
        /\ threads' = [threads EXCEPT ![t] = [kind |-> kind, pc |-> "read",
                                              stopped |-> FALSE, failed |-> FALSE]]

(* play_user / loop_user: return if user_playing, else set the flag and    *)
(* call start_user_playback_with_timer / start_user_loop_playback_with_    *)
(* timer: _cleanup_playback_lines, then the 20 ms overlay timer, then the  *)
(* thread.  When the cleanup raises, neither timer nor thread is started.  *)
StartPlayback(kind) ==
    /\ budget > 0
    /\ budget' = budget - 1
    /\ FreeSlots # {}
    /\ obs' = [thread |-> "event_loop", touched |-> {"buttons", "overlay"},
               busy |-> user_playing, raised |-> ~user_playing /\ CleanupRaises]
    /\ IF user_playing
       THEN UNCHANGED <<playVars, overlayVars>>
       ELSE /\ user_playing' = TRUE
            /\ IF CleanupRaises
               THEN /\ cleanup_playback_lines
                    /\ UNCHANGED threads
               ELSE /\ user_timer' = kind
                    /\ overlay_x' = 0
                    /\ UNCHANGED overlay_lost
                    /\ Spawn(kind)
            /\ UNCHANGED sd_active
    /\ UNCHANGED recVars
    /\ UserFrame

play_user ==
    /\ handler' = "play_user"
    /\ StartPlayback("play")

loop_user ==
    /\ handler' = "loop_user"
    /\ StartPlayback("loop")

(* stop_user: user_playing = False; sd.stop(); _cleanup_playback_lines()   *)
stop_user ==
    /\ budget > 0
    /\ budget' = budget - 1
    /\ user_playing' = FALSE
    /\ sd_active' = FALSE
    /\ threads' = [t \in 1..MaxThreads |->
                      IF threads[t].kind = "none" THEN threads[t]
                      ELSE [threads[t] EXCEPT !.stopped = TRUE]]
    /\ cleanup_playback_lines
    /\ handler' = "stop_user"
    /\ obs' = [thread |-> "event_loop", touched |-> {"buttons", "overlay"},
               raised |-> CleanupRaises, timer |-> user_timer, x |-> overlay_x]
    /\ UNCHANGED recVars
    /\ UserFrame

(* where set_x_position puts the overlay: at the left edge or right of it  *)
OverlayPositions == {0, 1}

(* update_playback_line, every 20 ms while user_playback_timer runs.  The  *)
(* callback of play_user moves the overlay, and stops the timer and moves  *)
(* the overlay to 0 once the clip length has elapsed (at once when the     *)
(* file could not be read) or the flag is false.  The callback of          *)
(* loop_user never moves the overlay (it is not an axes line), and once    *)
(* the flag is false stops the timer and sets user_playback_overlay = None *)
update_playback_line ==
    /\ user_timer # "none"
    /\ IF user_timer = "play"
       THEN \E x \in OverlayPositions, over \in BOOLEAN :
               /\ ~user_file.exists => over
               /\ IF CleanupRaises
                  THEN UNCHANGED overlayVars
                  ELSE IF over \/ ~user_playing
                  THEN /\ user_timer' = "none"
                       /\ overlay_x' = 0
                       /\ UNCHANGED overlay_lost
                  ELSE /\ overlay_x' = x
                       /\ UNCHANGED <<user_timer, overlay_lost>>
       ELSE IF ~user_playing
            THEN /\ user_timer' = "none"
                 /\ overlay_lost' = TRUE
                 /\ UNCHANGED overlay_x
            ELSE UNCHANGED overlayVars
    /\ handler' = "overlay_timer"
    /\ obs' = [thread |-> "event_loop", touched |-> {"overlay"},
               kind |-> user_timer, flag |-> user_playing]
    /\ UNCHANGED <<recVars, playVars, budget>>
    /\ UserFrame

ThreadFrame ==
    /\ UNCHANGED recVars
    /\ UNCHANGED overlayVars
    /\ UNCHANGED budget
    /\ UserFrame

(* wavfile.read, trim, output device lookup: raises when the file is       *)
(* missing or unreadable or no device is there                             *)
ThreadRead(t) ==
    /\ threads[t].pc = "read"
    /\ \E ok \in BOOLEAN :
          /\ ok => user_file.exists
          /\ threads' = [threads EXCEPT
                ![t].pc = IF ~ok THEN "finally"
                          ELSE IF threads[t].kind = "loop" THEN "check" ELSE "play",
                ![t].failed = ~ok]
    /\ handler' = "thread_read"
    /\ obs' = [thread |-> threads[t].kind, touched |-> {}]
    /\ UNCHANGED <<user_playing, sd_active>>
    /\ ThreadFrame

(* while self.user_playing: the test of _loop_user_thread                  *)
ThreadCheck(t) ==
    /\ threads[t].pc = "check"
    /\ threads' = [threads EXCEPT ![t].pc = IF user_playing THEN "play" ELSE "finally"]
    /\ handler' = "thread_check"
    /\ obs' = [thread |-> threads[t].kind, touched |-> {}]
    /\ UNCHANGED <<user_playing, sd_active>>
    /\ ThreadFrame

(* sd.play(audio_data, ...): one pass over the buffer begins, or raises    *)
ThreadPlay(t) ==
    /\ threads[t].pc = "play"
    /\ \E ok \in BOOLEAN :
          /\ threads' = [threads EXCEPT ![t].pc = IF ok THEN "wait" ELSE "finally",
                                        ![t].failed = ~ok]
          /\ sd_active' = IF ok THEN TRUE ELSE sd_active
          /\ obs' = [thread |-> threads[t].kind, touched |-> {}, began |-> ok,
                     stopped |-> threads[t].stopped]
    /\ handler' = "thread_play"
    /\ UNCHANGED user_playing
    /\ ThreadFrame

(* sd.wait() returns                                                       *)
ThreadWait(t) ==
    /\ threads[t].pc = "wait"
    /\ ~sd_active
    /\ threads' = [threads EXCEPT
          ![t].pc = IF threads[t].kind = "loop" THEN "check" ELSE "finally"]
    /\ user_playing' = IF threads[t].kind = "loop" THEN user_playing ELSE FALSE
    /\ handler' = "thread_wait"
    /\ obs' = [thread |-> threads[t].kind, touched |-> {}]
    /\ UNCHANGED sd_active
    /\ ThreadFrame

(* finally: user_playing = False; the three buttons                        *)
ThreadFinally(t) ==
    /\ threads[t].pc = "finally"
    /\ user_playing' = FlagAfterPath(user_playing, threads[t].failed)
    /\ threads' = [threads EXCEPT ![t] = NoThread]
    /\ handler' = "thread_finally"
    /\ obs' = [thread |-> threads[t].kind, touched |-> {"buttons"},
               failed |-> threads[t].failed, stopped |-> threads[t].stopped,
               flag |-> user_playing]
    /\ UNCHANGED sd_active
    /\ ThreadFrame

(* the output stream has played the whole buffer                           *)
SdFinish ==
    /\ sd_active
    /\ sd_active' = FALSE
    /\ handler' = "sd_finish"
    /\ obs' = [thread |-> "sounddevice", touched |-> {}]
    /\ UNCHANGED <<user_playing, threads>>
    /\ ThreadFrame

PlayThread ==
    \E t \in 1..MaxThreads :
        ThreadRead(t) \/ ThreadCheck(t) \/ ThreadPlay(t) \/ ThreadWait(t)
            \/ ThreadFinally(t)

(* a native clip is loaded (process_audio), so that redraw_waveform has a  *)
(* native contour to draw; process_audio begins with                       *)
(* _cleanup_playback_lines and does not go on when that raises             *)
UserLoad ==
    /\ ~Loaded
    /\ cleanup_playback_lines
    /\ IF CleanupRaises
       THEN UNCHANGED regionVars
       ELSE process_audio_region(MaxClip)
    /\ handler' = "process_audio"
    /\ obs' = [thread |-> "event_loop", touched |-> {"contour", "plot", "overlay", "engine"}]
    /\ cmds' = <<>>
    /\ UNCHANGED <<schedVars, estVars, vlcVars, scanVars, ghostVars, budget, recVars,
                   playVars>>

NextUser ==
    \/ start_recording
    \/ stop_recording
    \/ RecBegin
    \/ RecCheck
    \/ RecSleep
    \/ RecSave
    \/ RecProcess
    \/ RecFinally
    \/ play_user
    \/ loop_user
    \/ stop_user
    \/ update_playback_line
    \/ RecOldCheck
    \/ RecOldSave
    \/ RecOldProcess
    \/ RecOldFinally
    \/ PlayThread
    \/ SdFinish
    \/ UserLoad

(* the locks a handler holds around its writes: on_select and              *)
(* clear_selection write the region inside `with self.selection_lock`;     *)
(* playback_lock and recording_lock are created and never acquired         *)
LocksHeld(h) == IF h \in {"on_select", "clear_selection"} THEN {"selection"} ELSE {}

(* the steps taken by _record_thread, _play_user_thread, _loop_user_thread *)
BackgroundSteps ==
    {"rec_begin", "rec_check", "rec_sleep", "rec_save", "rec_process",
     "rec_finally", "rec_old_check", "rec_old_save", "rec_old_process",
     "rec_old_finally", "thread_read", "thread_check", "thread_play",
     "thread_wait", "thread_finally"}

SpecUser == Init /\ [][NextUser]_vars

(* The operating system schedules every started thread again and again,    *)
(* and a started output stream plays out.                                  *)
SpecUserFair ==
    /\ Init
    /\ [][NextUser]_vars
    /\ WF_vars(RecThread)
    /\ WF_vars(PlayThread)
    /\ WF_vars(SdFinish)

----------------------------------------------------------------------------
(* Properties.                                                             *)

(* C1: with looping enabled and loop delay 0, a poll tick that sees the    *)
(* playing engine at or past loop_end issues exactly one seek to           *)
(* loop_start and no pause, and it is the only seek that poll ticks issue  *)
(* for that crossing of loop_end.                                          *)
C1_OneSeekPerCrossing ==
    (handler = "poll" /\ obs.crossing /\ obs.looping /\ obs.delay = 0
        /\ obs.start < obs.end)
        => (cmds = <<SeekCmd(obs.start)>> /\ obs.seeks = 1)

(* C2: with looping enabled and a loop delay d > 0, the poll tick that     *)
(* sees loop_end only pauses; no timer callback seeks or plays before d    *)
(* has elapsed since that pause; and if looping is still enabled at the    *)
(* expiry there is exactly one restart: one seek at d, one play after the  *)
(* settle delay.                                                           *)
C2_DelayedRestart ==
    loop_start < loop_end =>
    /\ (handler = "poll" /\ obs.delayed) => cmds = <<PauseCmd>>
    /\ (loop_wait.on /\ loop_wait.age < loop_wait.d)
           => (loop_wait.seeks = 0 /\ loop_wait.plays = 0)
    /\ loop_wait.on => (loop_wait.seeks <= 1 /\ loop_wait.plays <= 1)
    /\ (loop_wait.on /\ loop_wait.age > loop_wait.d) => loop_wait.seeks = 1
    /\ (loop_wait.on /\ loop_wait.age > loop_wait.d + SeekWait)
           => loop_wait.plays = 1

(* C3 as stated: two toggle_play_pause calls closer together than the      *)
(* debounce window produce exactly one engine command in total.            *)
C3_OneCommandInTotal ==
    (handler = "toggle" /\ obs.gap # NoTimer /\ obs.gap < DebounceMs)
        => (obs.first + Len(cmds) = 1)

(* C3 amended: a toggle_play_pause call made less than the debounce window *)
(* after an accepted call issues no engine command; the two calls together *)
(* issue the commands of the first alone: one pause, or a seek and a play. *)
C3_SecondToggleSilent ==
    (handler = "toggle" /\ obs.gap # NoTimer /\ obs.gap < DebounceMs)
        => (obs.skipped /\ cmds = <<>> /\ obs.first \in {1, 2})

C3_Witness ==
    handler = "toggle" /\ obs.skipped /\ obs.gap < DebounceMs /\ obs.first = 2

(* C4 as stated: a poll tick that finds the seek-expected flag set while   *)
(* the engine is playing stores exactly the observed position T.           *)
C4_SnapExact ==
    (handler = "poll" /\ obs.expect /\ obs.playing /\ MaxEnd(clip_duration) > 0)
        => last_playback_pos = obs.t

(* C4 amended: such a poll tick stores the observed position T clamped to  *)
(* [0, clipEnd], whatever the previous estimate and the elapsed time were. *)
C4_SnapClamped ==
    (handler = "poll" /\ obs.expect /\ obs.playing)
        => last_playback_pos = Max(0, Min(obs.t, clip_duration - Margin - EndBuffer))

C4_Witness ==
    /\ handler = "poll" /\ obs.expect /\ obs.playing
    /\ obs.interp # obs.t
    /\ last_playback_pos = obs.t

(* C5 as stated: the position computed by the animation tick is inside     *)
(* [0, clipEnd], clipEnd = clipDuration - margin - 0.05, for every clip.   *)
C5_IndicatorInClip ==
    (handler = "anim" /\ obs.moved)
        => (0 <= obs.est_pos /\ obs.est_pos <= clip_duration - Margin - EndBuffer)

(* C5 amended: the position computed by the animation tick is inside       *)
(* [0, max(0, clipEnd)]: inside [0, clipEnd] when clipEnd >= 0, and 0 for  *)
(* a clip shorter than margin + 0.05.                                      *)
C5_IndicatorClamped ==
    (handler = "anim" /\ obs.moved)
        => /\ 0 <= obs.est_pos
           /\ obs.est_pos <= Max(0, clip_duration - Margin - EndBuffer)

C5_Witness ==
    /\ handler = "anim" /\ obs.moved
    /\ clip_duration - Margin - EndBuffer > 0
    /\ obs.raw > clip_duration - Margin - EndBuffer
    /\ obs.est_pos = clip_duration - Margin - EndBuffer

(* C6: after on_select on a proper raw span (0 <= xmin < xmax <= duration)  *)
(* of a clip longer than margin + 0.05, the region satisfies               *)
(* 0 <= start < end <= clipDuration - margin.                              *)
C6_RegionOrdered ==
    (/\ handler = "on_select"
     /\ 0 <= obs.xmin /\ obs.xmin < obs.xmax /\ obs.xmax <= clip_duration
     /\ MaxEnd(clip_duration) > 0)
        => /\ 0 <= loop_start
           /\ loop_start < loop_end
           /\ loop_end <= clip_duration - Margin

(* C7: after clear_selection the region is [0, clipDuration - margin -     *)
(* 0.05], whatever was selected before.                                    *)
C7_ClearIsDefault ==
    handler = "clear_selection"
        => (loop_start = 0 /\ loop_end = clip_duration - Margin - EndBuffer)

C7_Witness ==
    /\ handler = "clear_selection"
    /\ obs.prev_start > 0
    /\ obs.prev_end < clip_duration - Margin - EndBuffer
    /\ loop_start = 0

(* C8: on_select applied to the region that on_select produced leaves the  *)
(* region as it is.                                                        *)
C8_SelectIdempotent ==
    (/\ handler = "on_select"
     /\ obs.prev_handler = "on_select"
     /\ obs.xmin = obs.prev_start
     /\ obs.xmax = obs.prev_end)
        => (loop_start = obs.prev_start /\ loop_end = obs.prev_end)

C8_Witness ==
    /\ handler = "on_select"
    /\ obs.prev_handler = "on_select"
    /\ obs.xmin = obs.prev_start
    /\ obs.xmax = obs.prev_end
    /\ loop_start >= SnapStart
    /\ loop_start < loop_end
    /\ loop_end = clip_duration - Margin - EndBuffer

(* C9: on_select snaps a raw start below 100 ms to 0 and clamps the end to *)
(* clipDuration - margin - 0.05; for the 5.0 s clip the default region is  *)
(* [0, 4.65], (0.05, 4.0) gives (0, 4.0) and (1.0, 4.8) gives (1.0, 4.65). *)
C9_SnapAndClamp ==
    /\ (handler = "process_audio" /\ clip_duration = 5000)
           => (loop_start = 0 /\ loop_end = 4650)
    /\ (handler = "on_select" /\ clip_duration = 5000
            /\ obs.xmin = 50 /\ obs.xmax = 4000)
           => (loop_start = 0 /\ loop_end = 4000)
    /\ (handler = "on_select" /\ clip_duration = 5000
            /\ obs.xmin = 1000 /\ obs.xmax = 4800)
           => (loop_start = 1000 /\ loop_end = 4650)
    /\ (handler = "on_select" /\ obs.xmin < SnapStart) => loop_start = 0
    /\ (handler = "on_select" /\ obs.xmax > clip_duration - Margin - EndBuffer)
           => loop_end = clip_duration - Margin - EndBuffer

C9_Witness ==
    /\ handler = "on_select" /\ clip_duration = 5000
    /\ obs.xmin = 50 /\ obs.xmax = 4000
    /\ loop_start = 0 /\ loop_end = 4000

(* C10: when the segmentation scan has finished, no segment contains an    *)
(* unvoiced sample and every voiced index lies in exactly one segment.     *)
C10_SegmentsPartition ==
    scan_done =>
        /\ \A s \in DOMAIN segments :
              \A k \in segments[s].first .. segments[s].last : voiced[k]
        /\ \A k \in DOMAIN voiced :
              voiced[k] =>
                 Cardinality({s \in DOMAIN segments :
                                 segments[s].first <= k /\ k <= segments[s].last}) = 1

(* C11: a recording that is never stopped by stop_recording completes on   *)
(* its own: once the capture has run for max_recording_time the thread     *)
(* saves the buffer, returns, and the recording flag is false again.       *)
C11_CapCompletes ==
    (rec_pc = "check" /\ recording /\ rec_elapsed = RecFrames)
        ~> (rec_pc = "none" /\ ~recording)

(* C12: the samples written by a successful save are the converted samples *)
(* of the captured buffer up to and including the last one whose magnitude *)
(* is above the threshold, and of the whole captured buffer when no sample *)
(* is above the threshold.                                                 *)
C12_TrimmedPrefix ==
    (handler = "rec_save" /\ obs.saved) =>
        LET loud == {i \in 1..Len(obs.captured) :
                        obs.captured[i] > SilenceThreshold
                            \/ obs.captured[i] < 0 - SilenceThreshold}
            kept == IF loud = {} THEN Len(obs.captured)
                    ELSE CHOOSE n \in loud : \A j \in loud : j <= n
        IN /\ Len(obs.written) = kept
           /\ \A i \in 1..kept : obs.written[i] = ToInt16(obs.captured[i])

C12_Witness ==
    /\ handler = "rec_save" /\ obs.saved
    /\ Len(obs.captured) = RecFrames
    /\ Len(obs.written) = RecFrames - 1
    /\ Abs(obs.captured[RecFrames]) <= SilenceThreshold
    /\ Abs(obs.captured[RecFrames - 1]) > SilenceThreshold

(* C12 as stated: the written samples always end at the last sample above  *)
(* the threshold, so nothing is written when no sample is above it.        *)
C12_AsStated ==
    (handler = "rec_save" /\ obs.saved) =>
        LET loud == {i \in 1..Len(obs.captured) :
                        obs.captured[i] > SilenceThreshold
                            \/ obs.captured[i] < 0 - SilenceThreshold}
        IN /\ \A i \in loud : i <= Len(obs.written)
           /\ Len(obs.written) \in loud \cup {0}

(* C13: once stop_user has been called, no loop thread that was running at *)
(* that moment begins another pass over the buffer.                        *)
C13_NoRepeatAfterStop ==
    (handler = "thread_play" /\ obs.thread = "loop" /\ obs.began)
        => ~obs.stopped

(* C14: every recording thread leaves with recording = false and every     *)
(* playback thread leaves with user_playing = false, whether or not it     *)
(* failed; start_recording, play_user and loop_user find the flag set only *)
(* while a thread of that kind is still running.                           *)
C14_FlagResetOnExit ==
    /\ handler = "rec_finally" => ~recording
    /\ handler = "thread_finally" => ~user_playing
    /\ (handler = "start_recording" /\ obs.busy) => rec_pc # "none"
    /\ (handler \in {"play_user", "loop_user"} /\ obs.busy)
           => \E t \in 1..MaxThreads : threads[t].kind # "none"

(* C15: whenever a handler issues a seek to the engine, the seek-expected  *)
(* flag is true at the moment the seek is issued.                          *)
C15_SeekFlagged ==
    (/\ handler \in {"toggle", "poll", "stop", "delay_timer", "end_timer",
                     "handle_end", "first_frame"}
     /\ CountOp(cmds, "seek") > 0
     /\ MaxEnd(clip_duration) > 0)
        => obs.flagged

(* C16: when the delay timer armed by the poll tick fires after looping    *)
(* has been disabled, the callback issues no seek and no play, arms no     *)
(* settle timer and leaves the engine as it was: a paused engine stays     *)
(* paused.                                                                 *)
C16_NoRestartWhenLoopOff ==
    (handler = "delay_timer" /\ ~obs.looping)
        => /\ cmds = <<>>
           /\ vlc_state = obs.state
           /\ obs.state = "Paused" => vlc_state = "Paused"

C16_Witness ==
    /\ handler = "delay_timer" /\ ~obs.looping
    /\ obs.state = "Paused" /\ vlc_state = "Paused"
    /\ loop_start < loop_end
    /\ cmds = <<>>

(* C17: the end-of-media handler follows the decision tree of the poll     *)
(* tick at loop_end: looping with a delay, pause only and restart when the *)
(* timer fires only if looping is still enabled; looping without a delay,  *)
(* seek to the loop start at once and no pause; not looping, seek to the   *)
(* loop start and pause.                                                   *)
C17_EndMatchesPoll ==
    /\ (handler = "handle_end" /\ obs.looping /\ obs.delay > 0)
           => cmds = <<PauseCmd>>
    /\ (handler = "handle_end" /\ obs.looping /\ obs.delay = 0)
           => (Head(cmds) = SeekCmd(obs.start) /\ CountOp(cmds, "pause") = 0)
    /\ (handler = "handle_end" /\ ~obs.looping)
           => cmds = <<SeekCmd(obs.start), PauseCmd>>
    /\ (handler = "end_timer" /\ obs.looping) => CountOp(cmds, "seek") = 1
    /\ (handler = "end_timer" /\ ~obs.looping) => cmds = <<>>

(* C18: at most one loop-restart task is pending at any time, counting the *)
(* delay timer armed by the poll tick, the single-shot delay timers armed  *)
(* by the end-of-media handler and the settle timers of _restart_loop.     *)
C18_OneRestartPending ==
    loop_start < loop_end =>
        (IF loop_delay_timer # NoTimer THEN 1 ELSE 0)
            + Len(end_timers) + Len(settle_timers) <= 1

(* C19: no step of the recording thread or of a playback thread reads from *)
(* or commands the media engine.                                           *)
C19_ThreadsLeaveEngine ==
    handler \in BackgroundSteps => "engine" \notin obs.touched

(* C20: no step of the recording thread or of a playback thread writes the *)
(* contour data, the plot, an overlay or a button.                         *)
C20_ThreadsLeaveRendering ==
    handler \in BackgroundSteps
        => obs.touched \cap {"contour", "plot", "overlay", "buttons"} = {}

(* C21: every step that changes loop_start or loop_end runs in a handler   *)
(* that holds selection_lock around the write, and every change of the     *)
(* recording flag by start_recording or stop_recording is made under       *)
(* recording_lock.                                                         *)
C21_WritesUnderLock ==
    [][ /\ (loop_start' # loop_start \/ loop_end' # loop_end)
            => "selection" \in LocksHeld(handler')
        /\ (recording' # recording
              /\ handler' \in {"start_recording", "stop_recording"})
            => "recording" \in LocksHeld(handler') ]_vars

(* C22: an accepted toggle that finds the engine not playing issues exactly *)
(* a seek followed by play; the seek goes to loop_start when the engine    *)
(* position is outside [loop_start, loop_end) and to the position plus the *)
(* 10 ms nudge otherwise; the seek-expected flag is set.                   *)
C22_PlayTransition ==
    (handler = "toggle" /\ ~obs.skipped /\ ~obs.was_playing) =>
        /\ cmds = <<SeekCmd(IF obs.pos < loop_start \/ obs.pos >= loop_end
                            THEN loop_start ELSE obs.pos + NudgeMs),
                    PlayCmd>>
        /\ obs.flagged
        /\ expecting_seek

C22_Witness ==
    /\ handler = "toggle" /\ ~obs.skipped /\ ~obs.was_playing
    /\ obs.pos > loop_start /\ obs.pos < loop_end
    /\ cmds = <<SeekCmd(obs.pos + NudgeMs), PlayCmd>>

(* C23: a toggle made while the debounce flag is set issues no engine      *)
(* command and leaves the pending loop-delay timer as it was.              *)
C23_DebouncedToggleInert ==
    (handler = "toggle" /\ obs.skipped /\ loop_start < loop_end) =>
        /\ cmds = <<>>
        /\ loop_delay_timer = obs.delay_timer

(* C24: a poll tick that finds the engine playing at or beyond loop_end    *)
(* while looping is off seeks to loop_start, then pauses, stops the poll   *)
(* timer and issues no play, whatever the loop delay is.                   *)
C24_NoLoopStopsAtEnd ==
    [][ (/\ handler' = "poll"
         /\ VlcPlaying(vlc_state)
         /\ vlc_time >= loop_end
         /\ ~is_looping)
            => /\ cmds' = <<SeekCmd(loop_start), PauseCmd>>
               /\ poll_timer' = NoTimer
               /\ ~VlcPlaying(vlc_state') ]_vars

C24_Witness ==
    /\ handler = "poll" /\ obs.playing /\ obs.crossing /\ ~obs.looping
    /\ obs.delay > 0
    /\ loop_start < loop_end
    /\ cmds = <<SeekCmd(loop_start), PauseCmd>>
    /\ poll_timer = NoTimer

(* C25: a loop restart never issues play in the step that issues the       *)
(* restart seek: the delay-timer callbacks and the end-of-media handler,   *)
(* when looping, seek only, and play comes from the settle callback.       *)
C25_PlayAfterSettle ==
    /\ (/\ handler \in {"delay_timer", "end_timer", "handle_end"}
        /\ obs.looping
        /\ MaxEnd(clip_duration) > 0
        /\ CountOp(cmds, "seek") > 0)
           => CountOp(cmds, "play") = 0
    /\ handler = "settle" => cmds = <<PlayCmd>>

(* C26: the delay read from the field is the integer the text denotes when *)
(* int() accepts the text and the integer lies in [0, 800], and 0 for any  *)
(* other text; it always lies in [0, 800].                                 *)
C26_EffectiveDelay ==
    handler = "delay_read" =>
        /\ obs.delay \in 0..MaxLoopDelay
        /\ obs.delay =
              IF ParseInt(obs.text).num
                   /\ ParseInt(obs.text).val >= 0
                   /\ ParseInt(obs.text).val <= MaxLoopDelay
              THEN ParseInt(obs.text).val
              ELSE 0

C26_Witness ==
    /\ handler = "delay_read"
    /\ obs.text = <<"9", "0", "0">>
    /\ obs.delay = 0

(* C27: a poll tick with no seek expected stores the observed position,    *)
(* clamped to [0, max_end], when the engine was not playing or when that   *)
(* position is more than 100 ms ahead of the interpolated one, and the     *)
(* interpolated position otherwise; the baseline time becomes now.         *)
C27_EstimateChoice ==
    [][ (handler' = "poll" /\ ~obs'.expect) =>
          LET interp == Max(0, Min(last_playback_pos + since_poll,
                                   MaxEnd(clip_duration)))
              observed == Max(0, Min(obs'.t, MaxEnd(clip_duration)))
          IN /\ last_playback_pos' =
                   IF ~VlcPlaying(vlc_state) THEN observed
                   ELSE IF observed > interp + AheadThreshold THEN observed
                   ELSE interp
             /\ since_poll' = 0 ]_vars

C27_Witness ==
    /\ handler = "poll" /\ ~obs.expect /\ ~obs.playing
    /\ loop_start < loop_end
    /\ obs.t # obs.interp
    /\ last_playback_pos = obs.t

(* C27 as stated, on clips longer than the margin: the stored position is *)
(* the observed position itself in the two snapping cases.                 *)
C27_AsStated ==
    [][ (handler' = "poll" /\ ~obs'.expect /\ MaxEnd(clip_duration) > 0) =>
          LET interp == Max(0, Min(last_playback_pos + since_poll,
                                   MaxEnd(clip_duration)))
          IN /\ last_playback_pos' =
                   IF ~VlcPlaying(vlc_state) THEN obs'.t
                   ELSE IF obs'.t > interp + AheadThreshold THEN obs'.t
                   ELSE interp
             /\ since_poll' = 0 ]_vars

(* C28: the animation tick leaves the baseline position, the baseline time *)
(* and the seek-expected flag as they were, and does not move the          *)
(* indicator when the engine is not playing.                               *)
C28_AnimationTickFrame ==
    [][ handler' = "anim" =>
          /\ last_playback_pos' = last_playback_pos
          /\ since_poll' = since_poll
          /\ expecting_seek' = expecting_seek
          /\ ~VlcPlaying(vlc_state) => ~obs'.moved ]_vars

C28_Witness ==
    /\ handler = "anim" /\ ~obs.moved
    /\ vlc_state = "Paused"
    /\ since_poll > 0
    /\ loop_start < loop_end

(* C29: a poll tick that finds the engine playing and no seek expected     *)
(* never lowers the stored position estimate.                              *)
C29_EstimateMonotonic ==
    [][ (handler' = "poll" /\ VlcPlaying(vlc_state) /\ ~obs'.expect)
            => last_playback_pos' >= last_playback_pos ]_vars

C29_Witness ==
    /\ handler = "poll" /\ obs.playing /\ ~obs.expect
    /\ obs.t + AheadThreshold < last_playback_pos
    /\ loop_start < loop_end

(* C30: when the scan has finished, every maximal run of voiced samples    *)
(* has been emitted as one segment, resampled exactly when it is longer    *)
(* than 3 samples; a run of length 1 is emitted too.                       *)
C30_EveryRunEmitted ==
    scan_done =>
        \A a \in DOMAIN voiced, b \in DOMAIN voiced :
            (/\ a <= b
             /\ \A k \in a..b : voiced[k]
             /\ (a = 1 \/ ~voiced[a - 1])
             /\ (b = Len(voiced) \/ ~voiced[b + 1]))
                => \E s \in DOMAIN segments :
                      /\ segments[s].first = a
                      /\ segments[s].last = b
                      /\ segments[s].dense = (b - a + 1 > 3)

(* C31: on_select on a raw span 0 <= xmin <= xmax of a clip longer than    *)
(* margin + 0.05 never leaves start > end, and a raw span that begins at   *)
(* or beyond clipDuration - margin - 0.05 leaves a zero-width region.      *)
C31_SelectNeverInverted ==
    (/\ handler = "on_select"
     /\ 0 <= obs.xmin /\ obs.xmin <= obs.xmax
     /\ MaxEnd(clip_duration) > 0)
        => /\ loop_start <= loop_end
           /\ obs.xmin >= MaxEnd(clip_duration) => loop_end = loop_start

(* C33: on a clip longer than margin + 0.05, from the return of            *)
(* stop_native until the user next calls toggle_play_pause (or opens a     *)
(* file), no handler issues a play command.                                *)
C33_NoPlayAfterStop ==
    (after_stop /\ MaxEnd(clip_duration) > 0) => CountOp(cmds, "play") = 0

(* C32: stop_user leaves the overlay timer stopped and the user-playback   *)
(* overlay at position 0, and from a state with the timer stopped and the  *)
(* overlay at 0 every step other than play_user and loop_user leaves them  *)
(* so: no timer callback runs and nothing moves the overlay.               *)
C32_OverlayZeroAfterStop ==
    [][/\ handler' = "stop_user" => (user_timer' = "none" /\ overlay_x' = 0)
       /\ (/\ user_timer = "none"
           /\ overlay_x = 0
           /\ handler' \notin {"play_user", "loop_user"})
              => (/\ user_timer' = "none"
                  /\ overlay_x' = 0
                  /\ handler' # "overlay_timer")]_vars

C32_Witness ==
    /\ handler = "stop_user"
    /\ obs.timer = "play"
    /\ obs.x # 0
    /\ overlay_x = 0
    /\ user_timer = "none"
    /\ \E t \in 1..MaxThreads : threads[t].kind = "play" /\ threads[t].stopped

(* C38: user_playing is true only while a playback thread is running, and *)
(* a play_user or loop_user call that sets the flag has started its thread *)
(* when it returns.                                                        *)
C38_FlagSetStartsThread ==
    /\ user_playing => \E t \in 1..MaxThreads : threads[t].kind # "none"
    /\ (handler \in {"play_user", "loop_user"} /\ ~obs.busy)
           => \E t \in 1..MaxThreads : threads[t].pc = "read"

(* C34: two recording threads never run at the same time, and a recording  *)
(* thread that returns while a newer one is running does not find the      *)
(* recording flag set (it would clear the flag of the newer session).      *)
C34_OneRecordingPath ==
    /\ ~(rec_pc # "none" /\ rec_old # "none")
    /\ handler = "rec_old_finally" => ~(obs.newer /\ obs.flag)

(* C35: two playback threads never run at the same time, user_playing is   *)
(* true while a thread is playing the stream, and a thread that returns    *)
(* after stop_user does not find user_playing set again (it would reset    *)
(* the flag of a playback started after the stop).                         *)
C35_OnePlaybackPath ==
    /\ Cardinality({t \in 1..MaxThreads : threads[t].kind # "none"}) <= 1
    /\ (sd_active /\ \E t \in 1..MaxThreads : threads[t].pc = "wait")
           => user_playing
    /\ (handler = "thread_finally" /\ obs.stopped) => ~obs.flag

(* The scheduler under the event loop's guarantees: clock time advances,   *)
(* a timer that is due fires, a queued end-of-media event is handled, and  *)
(* the engine carries out a seek it has been given.                        *)
SpecFair ==
    /\ Init
    /\ [][Next]_vars
    /\ WF_vars(Tick)
    /\ WF_vars(VlcApplySeek)
    /\ WF_vars(poll_vlc_state_and_overlay)
    /\ WF_vars(reset_play_pause_debounce)
    /\ WF_vars(restart_if_still_looping)
    /\ WF_vars(end_restart_timer)
    /\ WF_vars(actually_play_after_seek)
    /\ WF_vars(handle_end)
    /\ WF_vars(first_frame_shown)

(* C36: after a poll tick has restarted the loop at once (looping on,      *)
(* delay 0) and the user has taken their last action, the position         *)
(* estimate eventually lies inside the loop again, before loop_end, unless *)
(* the engine stops playing.                                               *)
C36_EstimateReturns ==
    (/\ handler = "poll"
     /\ obs.crossing /\ ~obs.delayed /\ obs.looping
     /\ loop_start < loop_end
     /\ budget = 0)
        ~> (last_playback_pos < loop_end \/ ~VlcPlaying(vlc_state))

(* where the engine is, or will be once it has carried out a pending seek  *)
EnginePos == IF vlc_seek # NoSeek THEN vlc_seek ELSE vlc_time

(* C37: with looping on and the user's last action taken, whenever the     *)
(* playing engine is at or past loop_end, or has just reached the end of   *)
(* the media (its end event is still to be handled), the engine is         *)
(* eventually playing again inside the loop, before loop_end, with the     *)
(* poll timer running.                                                     *)
C37_LoopNeverStalls ==
    (/\ is_looping
     /\ loop_start < loop_end
     /\ budget = 0
     /\ \/ VlcPlaying(vlc_state) /\ vlc_seek = NoSeek /\ vlc_time >= loop_end
        \/ vlc_state = "Ended" /\ end_pending > 0)
        ~> (/\ VlcPlaying(vlc_state)
            /\ poll_timer # NoTimer
            /\ EnginePos < loop_end)

C37_Witness ==
    /\ handler = "settle"
    /\ is_looping
    /\ loop_wait.on /\ loop_wait.seeks = 1 /\ loop_wait.plays = 1
    /\ VlcPlaying(vlc_state)
    /\ poll_timer = PollInterval
    /\ EnginePos < loop_end
====
